---- MODULE Spec2Model ----
(***************************************************************************)
(* Model of src/udev/udev-node.c: the stack of claimants of a stable       *)
(* device link (/run/udev/links/<escaped link>/<device id>), the selection *)
(* of the claimant with the highest devlink priority, and the publication  *)
(* of the link under /dev by node_symlink().  Every system call of         *)
(* link_update() and node_symlink() is one step of the worker that makes   *)
(* it, so that the calls of concurrent workers interleave.                 *)
(***************************************************************************)
EXTENDS Integers, Sequences, FiniteSets, TLC

(* ------------------------------------------------------------------ *)
(* Program constants                                                    *)
(* ------------------------------------------------------------------ *)

LINK_UPDATE_MAX_RETRIES == 128

\* char name_enc[PATH_MAX] in link_update(): 4096 on Linux.  The model's
\* buffer is NameEncSize.
PATH_MAX == 4096

\* errno values returned negated by the code
ENOENT == 2
EINVAL == 22
EEXIST == 17
EISDIR == 21
ELOOP == 40
EOPNOTSUPP == 95

(* ------------------------------------------------------------------ *)
(* Bounds of the model                                                  *)
(* ------------------------------------------------------------------ *)

\* top-level calls (udev_node_add, udev_node_remove,
\* udev_node_update_old_links) the workers make in all
MaxOps == 3

\* top-level calls the worker of the churn specification makes
MaxChurnOps == 1

\* sizeof(name_enc), scaled down: the escaped names of L1 and L2 fit in
\* the buffer and that of L3 does not.
NameEncSize == 16

\* The claim files in the directory that link_find_prioritized() reads on
\* its own.
MaxEntries == 3

\* The longest src and the largest dest that escape_path() is called with on
\* its own.
MaxSrcLen == 4
MaxBufSize == 17

(* ------------------------------------------------------------------ *)
(* Devices, links and paths                                             *)
(* ------------------------------------------------------------------ *)

\* The devices, named by their device id (the name of their claim file).
Devices == {"A", "B", "C"}

\* A claimant that only the environment of the churn specification adds and
\* removes.
Stranger == "X"

DeviceIds == Devices \cup {Stranger}

\* The stable links.
Links == {"L1", "L2", "L3"}

\* A path is the sequence of its components, "/dev/disk/ROOT" being
\* <<"dev", "disk", "ROOT">>.
LinkPath(l) ==
    CASE l = "L1" -> <<"dev", "disk", "ROOT">>
      [] l = "L2" -> <<"dev", "id", "X">>
      [] l = "L3" -> <<"dev", "a", "a", "a", "a", "a">>
      [] OTHER -> <<"run", "X">>

\* A link that a device may declare and that is not under /dev.
Outside == "L0"

\* sd_device_get_devname(): the device node of a device.
DevName(d) ==
    CASE d = "A" -> <<"dev", "sda">>
      [] d = "B" -> <<"dev", "sdb">>
      [] d = "C" -> <<"dev", "sdc">>
      [] OTHER -> <<"dev", "sdx">>

\* device_get_devlink_priority(): B and C tie above A.
DevlinkPriority(d) ==
    CASE d = "A" -> 0
      [] d = "B" -> 10
      [] d = "C" -> 10
      [] OTHER -> 5

\* sd_device_get_is_initialized(): C's database record is not written yet.
IsInitialized(d) == d /= "C"

\* sd_device_get_subsystem(): A and B are block devices, C is a terminal.
Subsystem(d) == IF d = "C" THEN "tty" ELSE "block"

\* xsprintf_dev_num_path_from_sd_device():
\* /dev/%s/%u:%u with streq(subsystem, "block") ? "block" : "char", the
\* device number named here by the device.
DevNumPath(d) == <<"dev", IF Subsystem(d) = "block" THEN "block" ELSE "char", d>>

\* The link lists a device may declare (FOREACH_DEVICE_DEVLINK); only A's
\* changes between two revisions of the device.
DevlinkChoices(d) ==
    IF d = "A" THEN {<<"L1">>, <<"L1", "L2">>} ELSE {<<"L1">>}

\* The paths node_symlink() writes: the stable links and the canonical links.
Paths == {LinkPath(l) : l \in Links} \cup {DevNumPath(d) : d \in Devices}

\* dirname(): the parent directory of a path.
Dirname(p) == SubSeq(p, 1, Len(p) - 1)

\* The directories under /dev that the code creates and prunes.
ParentDirs == {Dirname(p) : p \in Paths}

Range(s) == {s[k] : k \in 1..Len(s)}

(* ------------------------------------------------------------------ *)
(* Path helpers                                                         *)
(* ------------------------------------------------------------------ *)

RECURSIVE CommonPrefixLen(_, _)
CommonPrefixLen(a, b) ==
    IF a = <<>> \/ b = <<>> \/ Head(a) /= Head(b)
    THEN 0
    ELSE 1 + CommonPrefixLen(Tail(a), Tail(b))

\* path_make_relative(from_dir, to_path): one ".." for each component of
\* from_dir below the common prefix, then the rest of to_path.
PathMakeRelative(fromDir, toPath) ==
    LET n == CommonPrefixLen(fromDir, toPath)
    IN  [k \in 1..(Len(fromDir) - n) |-> ".."] \o SubSeq(toPath, n + 1, Len(toPath))

RECURSIVE ResolveFrom(_, _)
\* What the kernel does with a relative link text read in directory dir.
ResolveFrom(dir, text) ==
    IF text = <<>> THEN dir
    ELSE IF Head(text) = ".."
         THEN ResolveFrom(SubSeq(dir, 1, Len(dir) - 1), Tail(text))
         ELSE ResolveFrom(Append(dir, Head(text)), Tail(text))

\* The characters of the path components, for escape_path().
Chars ==
    [disk |-> <<"d", "i", "s", "k">>, ROOT |-> <<"R", "O", "O", "T">>,
     id |-> <<"i", "d">>, X |-> <<"X">>, dev |-> <<"d", "e", "v">>,
     a |-> <<"a">>]

RECURSIVE JoinPath(_)
\* The components of a relative path joined by "/".
JoinPath(p) ==
    IF p = <<>> THEN <<>>
    ELSE IF Len(p) = 1 THEN Chars[p[1]]
    ELSE Chars[p[1]] \o <<"/">> \o JoinPath(Tail(p))

\* path_startswith(slink, "/dev") is not NULL.
IsUnderDev(p) == Len(p) >= 1 /\ p[1] = "dev"

\* path_startswith(slink, "/dev"): the rest of the path behind the prefix,
\* or the empty sequence (NULL) when the path is not under /dev.
PathStartswithDev(p) ==
    IF IsUnderDev(p) THEN JoinPath(Tail(p)) ELSE <<>>

(* ------------------------------------------------------------------ *)
(* escape_path()                                                        *)
(* ------------------------------------------------------------------ *)

RECURSIVE EscapeLoop_SlashOnly(_, _, _, _)
\* The loop without its second branch: a backslash is copied like any other
\* byte.
EscapeLoop_SlashOnly(src, i, dest, size) ==
    IF i > Len(src) THEN dest
    ELSE LET j == Len(dest)
         IN  IF src[i] = "/"
             THEN IF j + 4 >= size THEN <<>>
                  ELSE EscapeLoop_SlashOnly(src, i + 1, dest \o <<"\\", "x", "2", "f">>, size)
             ELSE IF j + 1 >= size THEN <<>>
                  ELSE EscapeLoop_SlashOnly(src, i + 1, Append(dest, src[i]), size)

RECURSIVE EscapeLoop(_, _, _, _)
\* The for loop of escape_path(): src from index i on, dest holding j = Len(dest)
\* bytes.  The result is the bytes of dest before its terminating NUL: on
\* overflow j is reset to 0 and dest[0] = '\0' makes the string empty.
EscapeLoop(src, i, dest, size) ==
    IF i > Len(src) THEN dest
    ELSE LET j == Len(dest)
         IN  IF src[i] = "/"
             THEN IF j + 4 >= size THEN <<>>
                  ELSE EscapeLoop(src, i + 1, dest \o <<"\\", "x", "2", "f">>, size)
             ELSE IF src[i] = "\\"
             THEN IF j + 4 >= size THEN <<>>
                  ELSE EscapeLoop(src, i + 1, dest \o <<"\\", "x", "5", "c">>, size)
             ELSE IF j + 1 >= size THEN <<>>
                  ELSE EscapeLoop(src, i + 1, Append(dest, src[i]), size)

\* escape_path(src, dest, size): the string left in dest; the function
\* returns its length.
escape_path(src, size) == EscapeLoop(src, 1, <<>>, size)

\* dest[j] = '\0'; return j: the length of the string left in dest.
escape_path_return(src, size) == Len(escape_path(src, size))

\* dirname = path_join("/run/udev/links/", name_enc), named by name_enc.
IndexDirOf(l) == escape_path(PathStartswithDev(LinkPath(l)), NameEncSize)

IndexDirs == {IndexDirOf(l) : l \in Links}

(* ------------------------------------------------------------------ *)
(* stat() of the index directory                                        *)
(* ------------------------------------------------------------------ *)

S_IFDIR == 16384

\* struct stat st = {}: what a failed stat() leaves.
ZeroStat == [st_mode |-> 0, stamp |-> 0]

\* stat(dirname, &st).  stamp stands for (st_dev, st_ino, st_mtim): the
\* kernel gives a directory a new one when it is made and whenever an entry
\* is added to it or removed from it.
Stat(dir) ==
    IF dir.exists THEN [st_mode |-> S_IFDIR, stamp |-> dir.stamp] ELSE ZeroStat

\* The comparison without inode and modification time: the kind of inode
\* only.
stat_inode_unmodified_TypeOnly(a, b) ==
    /\ a.st_mode /= 0
    /\ a.st_mode = b.st_mode

\* stat_inode_unmodified(a, b): a was filled in, both are the same kind of
\* inode, and inode and modification time are equal.
stat_inode_unmodified(a, b) ==
    /\ a.st_mode /= 0
    /\ a.st_mode = b.st_mode
    /\ a.stamp = b.stamp

(* ------------------------------------------------------------------ *)
(* link_find_prioritized()                                              *)
(* ------------------------------------------------------------------ *)

\* No device node chosen (target == NULL).
NoTarget == <<>>

\* The device database as the selector reads it: for a device id, whether
\* sd_device_new_from_device_id(), sd_device_get_devname() and
\* device_get_devlink_priority() all succeed, and what they yield.
StaticDb ==
    [id \in DeviceIds |->
        [ok |-> TRUE, devname |-> DevName(id), prio |-> DevlinkPriority(id)]]

\* readdir(): "." and "..", then the directory's entries in its own order.
Readdir(entries) == <<".", "..">> \o entries

RECURSIVE FindLoop_AnyPriority(_, _, _, _, _)
\* FindLoop without the test db_prio <= priority: every claimant that
\* resolves replaces the choice made so far.
FindLoop_AnyPriority(dev, dents, db, target, priority) ==
    IF dents = <<>> THEN target
    ELSE LET name == Head(dents)
             rest == Tail(dents)
         IN  IF name \in {".", ".."} \/ name = dev \/ ~db[name].ok
             THEN FindLoop_AnyPriority(dev, rest, db, target, priority)
             ELSE FindLoop_AnyPriority(dev, rest, db, db[name].devname, db[name].prio)

RECURSIVE FindLoop_TiesDisplace(_, _, _, _, _)
\* FindLoop with the test db_prio < priority: a claimant of equal priority
\* replaces the choice made so far.
FindLoop_TiesDisplace(dev, dents, db, target, priority) ==
    IF dents = <<>> THEN target
    ELSE LET name == Head(dents)
             rest == Tail(dents)
         IN  IF name \in {".", ".."} \/ name = dev \/ ~db[name].ok
             THEN FindLoop_TiesDisplace(dev, rest, db, target, priority)
             ELSE IF target /= NoTarget /\ db[name].prio < priority
                  THEN FindLoop_TiesDisplace(dev, rest, db, target, priority)
             ELSE FindLoop_TiesDisplace(dev, rest, db, db[name].devname, db[name].prio)

RECURSIVE FindLoop(_, _, _, _, _)
\* FOREACH_DIRENT_ALL of link_find_prioritized(): dents is what is left to
\* read, (target, priority) the choice so far.
FindLoop(dev, dents, db, target, priority) ==
    IF dents = <<>> THEN target
    ELSE LET name == Head(dents)
             rest == Tail(dents)
         IN  IF name \in {".", ".."} THEN FindLoop(dev, rest, db, target, priority)
             ELSE IF name = dev THEN FindLoop(dev, rest, db, target, priority)
             ELSE IF ~db[name].ok THEN FindLoop(dev, rest, db, target, priority)
             ELSE IF target /= NoTarget /\ db[name].prio <= priority
                  THEN FindLoop(dev, rest, db, target, priority)
             ELSE FindLoop(dev, rest, db, db[name].devname, db[name].prio)

\* The selection that starts from no target in add mode as well.
link_find_prioritized_Unseeded(dev, add, exists, entries, db) ==
    IF ~exists
    THEN [r |-> -ENOENT, target |-> NoTarget]
    ELSE LET t == FindLoop(dev, Readdir(entries), db, NoTarget, 0)
         IN  IF t = NoTarget
             THEN [r |-> -ENOENT, target |-> NoTarget]
             ELSE [r |-> 0, target |-> t]

\* link_find_prioritized(dev, add, stackdir, &ret) on a directory that
\* exists or not and lists entries: r is the return value, target is *ret.
link_find_prioritized(dev, add, exists, entries, db) ==
    LET seed == IF add THEN DevName(dev) ELSE NoTarget
        priority == IF add THEN DevlinkPriority(dev) ELSE 0
    IN  IF ~exists
        THEN IF seed /= NoTarget
             THEN [r |-> 0, target |-> seed]
             ELSE [r |-> -ENOENT, target |-> NoTarget]
        ELSE LET t == FindLoop(dev, Readdir(entries), db, seed, priority)
             IN  IF t = NoTarget
                 THEN [r |-> -ENOENT, target |-> NoTarget]
                 ELSE [r |-> 0, target |-> t]

(* ------------------------------------------------------------------ *)
(* node_permissions_apply()                                             *)
(* ------------------------------------------------------------------ *)

S_IFMT == 61440
S_IFBLK == 24576
S_IFCHR == 8192

\* (mode_t) -1, (uid_t) -1 and (gid_t) -1: every bit set
MODE_INVALID == -1
UID_INVALID == -1
GID_INVALID == -1

\* st_mode & S_IFMT and st_mode & 0777 of a 32-bit mode
FmtBits(m) == ((m \div 4096) % 16) * 4096
PermBits(m) == m % 512

\* mode |= S_IFBLK (or S_IFCHR) on permission bits, or on MODE_INVALID,
\* whose bits are all set already.
OrFmt(m, fmt) == IF m = MODE_INVALID THEN m ELSE PermBits(m) + fmt

\* The arguments of udev_node_add() besides the device.
AddArgs ==
    [apply |-> FALSE, mode |-> 432, uid |-> UID_INVALID, gid |-> 6,
     seclabel_list |-> <<>>]

\* A file that open(devnode, O_PATH|O_NOFOLLOW|O_CLOEXEC) does not find.
NoNode ==
    [exists |-> FALSE, st_mode |-> 0, st_rdev |-> "none", st_uid |-> 0,
     st_gid |-> 0, selinux |-> "none", smack |-> "none", touched |-> FALSE]

\* The labels the node bears once every SECLABEL{module} of the list is
\* applied and the modules the list does not name are set to their default.
RECURSIVE LabelOf(_, _, _)
LabelOf(module, list, default) ==
    IF list = <<>> THEN default
    ELSE LET last == list[Len(list)]
             front == SubSeq(list, 1, Len(list) - 1)
         IN  IF last.name = module THEN last.label
             ELSE LabelOf(module, front, default)

\* node_permissions_apply(dev, apply_mac, mode, uid, gid, seclabel_list) on
\* the node nd found at the devname: r is the return value, node what the
\* call leaves there.
node_permissions_apply(dev, a, nd) ==
    LET mode == OrFmt(a.mode, IF Subsystem(dev) = "block" THEN S_IFBLK ELSE S_IFCHR)
        apply_mode == mode /= MODE_INVALID /\ PermBits(nd.st_mode) /= PermBits(mode)
        apply_uid == a.uid /= UID_INVALID /\ nd.st_uid /= a.uid
        apply_gid == a.gid /= GID_INVALID /\ nd.st_gid /= a.gid
        chown == apply_mode \/ apply_uid \/ apply_gid
    IN  IF ~nd.exists THEN [r |-> 0, node |-> nd]
        ELSE IF \/ (mode /= MODE_INVALID /\ FmtBits(nd.st_mode) /= FmtBits(mode))
                \/ nd.st_rdev /= dev
        THEN [r |-> 0, node |-> nd]
        ELSE [r |-> 0,
              node |->
                [nd EXCEPT
                    !.st_mode = IF chown /\ mode /= MODE_INVALID
                                THEN FmtBits(@) + PermBits(mode) ELSE @,
                    !.st_uid = IF chown /\ a.uid /= UID_INVALID THEN a.uid ELSE @,
                    !.st_gid = IF chown /\ a.gid /= GID_INVALID THEN a.gid ELSE @,
                    !.selinux = IF chown \/ a.apply
                                THEN LabelOf("selinux", a.seclabel_list, "default")
                                ELSE @,
                    !.smack = IF chown \/ a.apply
                              THEN LabelOf("smack", a.seclabel_list, "none")
                              ELSE @,
                    !.touched = TRUE]]

(* ------------------------------------------------------------------ *)
(* State                                                                *)
(* ------------------------------------------------------------------ *)

VARIABLES
    devfs,      \* what lies at each path under /dev: [type, text]
    staging,    \* the staging links <slink>.tmp-<device id>: their text, or <<>>
    dirs,       \* the parent directories under /dev that exist
    index,      \* the index directories: [exists, entries, stamp]
    devlinks,   \* the links each device declares in its current revision
    nodes,      \* the device node at each device's devname
    wk,         \* the locals of each worker, one worker per device
    nops,       \* the top-level calls made so far
    mode,       \* how the workers are scheduled: "conc", "seq", "churn"; "find"
    hist,       \* sequential runs: the last two calls, the state at the start
    find,       \* mode "find": one call of link_find_prioritized() and its result
    perm,       \* mode "perm": one call of node_permissions_apply() and its result
    esc         \* mode "esc": one call of escape_path() and its result

vars == <<devfs, staging, dirs, index, devlinks, nodes, wk, nops, mode, hist, find, perm, esc>>

NoFile == [type |-> "none", text |-> <<>>]
\* S_ISBLK or S_ISCHR
DeviceNode == [type |-> "node", text |-> <<>>]
Directory == [type |-> "dir", text |-> <<>>]
Symlink(text) == [type |-> "lnk", text |-> text]

NoDir == [exists |-> FALSE, entries |-> <<>>, stamp |-> 0]

\* What a worker remembers of the index directory for the observations
\* below: whether it was there and the claim files it held when st1 was
\* taken.
NoSeen == [exists |-> FALSE, entries |-> <<>>]

\* A worker outside every call.
IdleWorker ==
    [pc |-> "idle", op |-> "none", todo |-> <<>>, slink |-> "none",
     add |-> FALSE, dirname |-> <<>>, i |-> 0, retries |-> 0, st1 |-> ZeroStat,
     seen |-> NoSeen,
     ns_from |-> "none", ns_slink |-> <<>>, ns_text |-> <<>>,
     ns_err |-> 0, rets |-> <<>>, old |-> <<>>]

Stamps == 1..(Cardinality(Devices) + Cardinality(IndexDirs) + 1)

\* The stamp of a directory just made or changed: one that no directory
\* bears and no worker remembers in st1.
FreshStamp ==
    LET used == {index[x].stamp : x \in IndexDirs} \cup
                {wk[d].st1.stamp : d \in Devices}
        free == Stamps \ used
    IN  CHOOSE s \in free : \A t \in free : s <= t

\* Whether a directory under /dev holds no entry (rmdir() succeeds).
DirEmpty(dir) ==
    \A p \in Paths :
        Dirname(p) = dir =>
            /\ devfs[p].type = "none"
            /\ \A d \in Devices : staging[p][d] = <<>>

\* The entries of a directory without one name, in their order.
RECURSIVE Without(_, _)
Without(entries, name) ==
    IF entries = <<>> THEN <<>>
    ELSE IF Head(entries) = name THEN Without(Tail(entries), name)
    ELSE <<Head(entries)>> \o Without(Tail(entries), name)

\* The orders a directory may list its entries in once name is added: the
\* new entry may come anywhere among the old ones.
Inserted(entries, name) ==
    {SubSeq(entries, 1, k) \o <<name>> \o SubSeq(entries, k + 1, Len(entries)) :
        k \in 0..Len(entries)}

\* unlink(filename) of a claim file that exists.
IndexUnlink(dir, name) ==
    [exists |-> TRUE, entries |-> Without(dir.entries, name), stamp |-> FreshStamp]

(* ------------------------------------------------------------------ *)
(* Control flow of link_update() and of the top-level calls             *)
(* ------------------------------------------------------------------ *)

\* The return statement with the comparison off by one.
link_update_result_OffByOne(i) == IF i <= LINK_UPDATE_MAX_RETRIES THEN 0 ELSE -ELOOP

\* return i < LINK_UPDATE_MAX_RETRIES ? 0 : -ELOOP;
link_update_result(i) == IF i < LINK_UPDATE_MAX_RETRIES THEN 0 ELSE -ELOOP

\* The full budget for every device.
link_update_retries_Always(d) == LINK_UPDATE_MAX_RETRIES

\* retries = sd_device_get_is_initialized(dev) > 0 ? LINK_UPDATE_MAX_RETRIES : 1;
link_update_retries(d) == IF IsInitialized(d) THEN LINK_UPDATE_MAX_RETRIES ELSE 1

\* FOREACH_DEVICE_DEVLINK that ends at the first link link_update()
\* rejects.
NextLink_StopAtFailure(w) ==
    IF w.todo = <<>> \/ ~IsUnderDev(LinkPath(Head(w.todo)))
    THEN [w EXCEPT !.pc = IF w.op = "remove" THEN "rm_unlink" ELSE "idle",
                   !.rets = IF w.todo = <<>> THEN @
                            ELSE Append(@, [slink |-> Head(w.todo), add |-> w.add,
                                            r |-> -EINVAL, ns_err |-> 0, i |-> 0]),
                   !.todo = <<>>,
                   !.slink = "none", !.dirname = <<>>,
                   !.i = 0, !.retries = 0, !.ns_err = 0]
    ELSE [w EXCEPT !.pc = IF w.add THEN "lu_mkdir" ELSE "lu_unlink",
                   !.slink = Head(w.todo), !.todo = Tail(w.todo),
                   !.dirname = IndexDirOf(Head(w.todo)),
                   !.i = 0, !.retries = 0, !.ns_err = 0]

RECURSIVE NextLink(_)
\* The worker enters link_update(dev, slink, add) for the first link of todo,
\* or ends FOREACH_DEVICE_DEVLINK when none is left.  For a link that is not
\* under /dev link_update() returns -EINVAL before its first system call:
\* the caller logs the result and goes on with the next link.
NextLink(w) ==
    IF w.todo = <<>>
    THEN IF w.op = "remove"
         THEN [w EXCEPT !.pc = "rm_unlink", !.slink = "none", !.dirname = <<>>,
                        !.i = 0, !.retries = 0, !.ns_err = 0]
         ELSE [w EXCEPT !.pc = "idle", !.slink = "none", !.dirname = <<>>,
                        !.i = 0, !.retries = 0, !.ns_err = 0]
    ELSE IF ~IsUnderDev(LinkPath(Head(w.todo)))
    THEN NextLink([w EXCEPT
            !.rets = Append(@, [slink |-> Head(w.todo), add |-> w.add,
                                r |-> -EINVAL, ns_err |-> 0, i |-> 0]),
            !.todo = Tail(@)])
    ELSE [w EXCEPT !.pc = IF w.add THEN "lu_mkdir" ELSE "lu_unlink",
                   !.slink = Head(w.todo), !.todo = Tail(w.todo),
                   !.dirname = IndexDirOf(Head(w.todo)),
                   !.i = 0, !.retries = 0, !.ns_err = 0]

\* link_update() returns: the caller logs the result and goes on with the
\* next link.
LinkUpdateReturn(w) ==
    NextLink([w EXCEPT
        !.rets = Append(@, [slink |-> w.slink, add |-> w.add,
                            r |-> link_update_result(w.i),
                            ns_err |-> w.ns_err, i |-> w.i]),
        !.st1 = ZeroStat, !.seen = NoSeen])

\* The claim is made or withdrawn: the retry budget is set and the loop
\* is entered with i = 0.
EnterLoop(d, w) ==
    [w EXCEPT !.pc = "lu_stat1", !.i = 0, !.retries = link_update_retries(d)]

\* The end of the loop body, or continue: i++ and the test i < retries.
LoopContinue(w) ==
    IF w.i + 1 < w.retries
    THEN [w EXCEPT !.pc = "lu_stat1", !.i = w.i + 1, !.st1 = ZeroStat,
                   !.seen = NoSeen]
    ELSE LinkUpdateReturn([w EXCEPT !.i = w.i + 1])

\* The result 1 of node_symlink() taken like the result 0: no continue.
AfterNodeSymlink_NoContinue(w, r) ==
    IF r < 0 THEN [w EXCEPT !.pc = "lu_undo", !.ns_err = r]
    ELSE IF w.st1.st_mode /= 0 THEN [w EXCEPT !.pc = "lu_stat2"]
    ELSE LoopContinue(w)

\* What link_update() does with the result r of node_symlink().
AfterNodeSymlink(w, r) ==
    IF r < 0 THEN [w EXCEPT !.pc = "lu_undo", !.ns_err = r]
    ELSE IF r = 1 THEN LoopContinue(w)
    ELSE IF w.st1.st_mode /= 0 THEN [w EXCEPT !.pc = "lu_stat2"]
    ELSE LoopContinue(w)

\* node_symlink() returns r to its caller: udev_node_add() ignores the
\* result for the canonical link and goes on to the device's links.
NodeSymlinkReturn(w, r) ==
    LET v == [w EXCEPT !.ns_from = "none", !.ns_slink = <<>>, !.ns_text = <<>>]
    IN  IF w.ns_from = "add" THEN NextLink(v) ELSE AfterNodeSymlink(v, r)

\* node_symlink(dev, node, slink) is entered: the relative target is
\* computed before the first system call.
NodeSymlinkCall(w, from, node, slink) ==
    [w EXCEPT !.pc = "ns_lstat", !.ns_from = from, !.ns_slink = slink,
              !.ns_text = PathMakeRelative(Dirname(slink), node)]

(* ------------------------------------------------------------------ *)
(* Scheduling and history                                               *)
(* ------------------------------------------------------------------ *)

\* The workers that run concurrently in mode "conc".
ConcDevices == {"A", "B"}

\* The workers of mode "churn", an initialized device and an uninitialized
\* one; the environment plays the others.
ChurnWorkers == {"A", "C"}

\* Whether worker d may take a step.  In mode "seq" a call runs to its end
\* before the next one starts.
Scheduled(d) ==
    CASE mode = "conc" -> d \in ConcDevices
      [] mode = "seq" -> \A e \in Devices \ {d} : wk[e].pc = "idle"
      [] OTHER -> d \in ChurnWorkers

\* Whether worker d may start one more top-level call.
MayCall(d) ==
    /\ Scheduled(d)
    /\ wk[d].pc = "idle"
    /\ nops < (IF mode = "churn" THEN MaxChurnOps ELSE MaxOps)

NoCall == [dev |-> "none", op |-> "none", links |-> <<>>]

\* The index without the stamps.
Claims(idx) == [x \in IndexDirs |-> [exists |-> idx[x].exists, entries |-> idx[x].entries]]

NoHist ==
    [initial |-> NoFile, updated |-> FALSE, prev |-> NoCall, cur |-> NoCall,
     devfs |-> [p \in Paths |-> NoFile],
     index |-> [x \in IndexDirs |-> [exists |-> FALSE, entries |-> <<>>]]]

\* A call starts: what lay at L1 at first and whether
\* udev_node_update_old_links() was ever called are remembered, and in mode
\* "seq" also the call before this one, the call itself and the state it
\* starts in.
Remember(d, op, links) ==
    hist' = IF mode = "seq"
            THEN [hist EXCEPT !.updated = @ \/ op = "update",
                              !.prev = hist.cur,
                              !.cur = [dev |-> d, op |-> op, links |-> links],
                              !.devfs = devfs, !.index = Claims(index)]
            ELSE [hist EXCEPT !.updated = @ \/ op = "update"]

SetWk(d, w) == wk' = [wk EXCEPT ![d] = w]

(* ------------------------------------------------------------------ *)
(* Top-level calls                                                      *)
(* ------------------------------------------------------------------ *)

\* udev_node_add() without the canonical link: the device's links only.
UdevNodeAdd_NoCanonical(d) ==
    /\ MayCall(d)
    /\ SetWk(d, NextLink(
            [IdleWorker EXCEPT !.op = "add", !.add = TRUE, !.todo = devlinks[d]]))
    /\ nodes' = [nodes EXCEPT ![d] = node_permissions_apply(d, AddArgs, @).node]
    /\ nops' = nops + 1
    /\ Remember(d, "add", devlinks[d])
    /\ UNCHANGED <<devfs, staging, dirs, index, devlinks, mode, find, perm, esc>>

\* udev_node_add(dev, ...) up to its first system call on a link:
\* node_permissions_apply() on the device node (it fails in no case the
\* model holds), then the canonical link /dev/block/<major>:<minor> is
\* written, then link_update(dev, devlink, true) runs for every link.
UdevNodeAdd(d) ==
    /\ MayCall(d)
    /\ SetWk(d, NodeSymlinkCall(
            [IdleWorker EXCEPT !.op = "add", !.add = TRUE, !.todo = devlinks[d]],
            "add", DevName(d), DevNumPath(d)))
    /\ nodes' = [nodes EXCEPT ![d] = node_permissions_apply(d, AddArgs, @).node]
    /\ nops' = nops + 1
    /\ Remember(d, "add", devlinks[d])
    /\ UNCHANGED <<devfs, staging, dirs, index, devlinks, mode, find, perm, esc>>

\* udev_node_remove(dev): link_update(dev, devlink, false) for every link,
\* then the canonical link is unlinked.
UdevNodeRemove(d) ==
    /\ MayCall(d)
    /\ SetWk(d, NextLink(
            [IdleWorker EXCEPT !.op = "remove", !.add = FALSE, !.todo = devlinks[d]]))
    /\ nops' = nops + 1
    /\ Remember(d, "remove", devlinks[d])
    /\ UNCHANGED <<devfs, staging, dirs, index, devlinks, nodes, mode, find, perm, esc>>

\* Every link of dev_old, the inner loop that looks for the name among the
\* links of dev left out.
OldLinks_All(new, old) == old

\* The links of dev_old that dev no longer declares, in dev_old's order.
OldLinks(new, old) == SelectSeq(old, LAMBDA name : name \notin Range(new))

\* udev_node_update_old_links(dev, dev_old): dev is the device's new
\* revision, declaring the links new; dev_old declared devlinks[d].
UdevNodeUpdateOldLinks(d, new) ==
    /\ MayCall(d)
    /\ SetWk(d, NextLink(
            [IdleWorker EXCEPT !.op = "update", !.add = FALSE,
                               !.todo = OldLinks(new, devlinks[d]),
                               !.old = devlinks[d]]))
    /\ devlinks' = [devlinks EXCEPT ![d] = new]
    /\ nops' = nops + 1
    /\ Remember(d, "update", new)
    /\ UNCHANGED <<devfs, staging, dirs, index, nodes, mode, find, perm, esc>>

\* (void) unlink(filename) of the canonical link, the last step of
\* udev_node_remove().
RmUnlinkCanon(d) ==
    /\ Scheduled(d)
    /\ wk[d].pc = "rm_unlink"
    /\ devfs' = [devfs EXCEPT ![DevNumPath(d)] =
                    IF @.type \in {"lnk", "node"} THEN NoFile ELSE @]
    /\ SetWk(d, [wk[d] EXCEPT !.pc = "idle"])
    /\ UNCHANGED <<staging, dirs, index, devlinks, nodes, nops, mode, find, perm, esc, hist>>

(* ------------------------------------------------------------------ *)
(* link_update(): the claim                                             *)
(* ------------------------------------------------------------------ *)

\* if (unlink(filename) == 0) ...: the claim file is removed when it is
\* there; only then rmdir(dirname) follows.
LuUnlinkClaim(d) ==
    LET w == wk[d]
        dir == index[w.dirname]
    IN  /\ Scheduled(d)
        /\ w.pc = "lu_unlink"
        /\ IF dir.exists /\ d \in Range(dir.entries)
           THEN /\ index' = [index EXCEPT ![w.dirname] = IndexUnlink(dir, d)]
                /\ SetWk(d, [w EXCEPT !.pc = "lu_rmdir"])
           ELSE /\ UNCHANGED index
                /\ SetWk(d, EnterLoop(d, w))
        /\ UNCHANGED <<devfs, staging, dirs, devlinks, nodes, nops, mode, find, perm, esc, hist>>

\* (void) rmdir(dirname): succeeds on an empty directory only.
LuRmdir(d) ==
    LET w == wk[d]
        dir == index[w.dirname]
    IN  /\ Scheduled(d)
        /\ w.pc = "lu_rmdir"
        /\ index' = [index EXCEPT ![w.dirname] =
                        IF dir.exists /\ dir.entries = <<>> THEN NoDir ELSE @]
        /\ SetWk(d, EnterLoop(d, w))
        /\ UNCHANGED <<devfs, staging, dirs, devlinks, nodes, nops, mode, find, perm, esc, hist>>

\* r = mkdir_parents(filename, 0755): makes the index directory when it is
\* missing.
LuMkdirParents(d) ==
    LET w == wk[d]
        dir == index[w.dirname]
    IN  /\ Scheduled(d)
        /\ w.pc = "lu_mkdir"
        /\ index' = [index EXCEPT ![w.dirname] =
                        IF dir.exists THEN @
                        ELSE [exists |-> TRUE, entries |-> <<>>, stamp |-> FreshStamp]]
        /\ SetWk(d, [w EXCEPT !.pc = "lu_open"])
        /\ UNCHANGED <<devfs, staging, dirs, devlinks, nodes, nops, mode, find, perm, esc, hist>>

\* fd = open(filename, O_WRONLY|O_CREAT|O_CLOEXEC|O_TRUNC|O_NOFOLLOW, 0444):
\* ENOENT when the directory is gone again, and mkdir_parents() is retried;
\* else the claim file is created, or truncated when it is there already.
LuOpen(d) ==
    LET w == wk[d]
        dir == index[w.dirname]
    IN  /\ Scheduled(d)
        /\ w.pc = "lu_open"
        /\ IF ~dir.exists
           THEN /\ UNCHANGED index
                /\ SetWk(d, [w EXCEPT !.pc = "lu_mkdir"])
           ELSE /\ IF d \in Range(dir.entries)
                   THEN UNCHANGED index
                   ELSE \E es \in Inserted(dir.entries, d) :
                            index' = [index EXCEPT ![w.dirname] =
                                [exists |-> TRUE, entries |-> es, stamp |-> FreshStamp]]
                /\ SetWk(d, EnterLoop(d, w))
        /\ UNCHANGED <<devfs, staging, dirs, devlinks, nodes, nops, mode, find, perm, esc, hist>>

(* ------------------------------------------------------------------ *)
(* link_update(): the loop                                              *)
(* ------------------------------------------------------------------ *)

\* r = stat(dirname, &st1), ENOENT leaving st1 zeroed.
LuStat1(d) ==
    LET w == wk[d]
    IN  /\ Scheduled(d)
        /\ w.pc = "lu_stat1"
        /\ SetWk(d, [w EXCEPT !.pc = "lu_find", !.st1 = Stat(index[w.dirname]),
                              !.seen = [exists |-> index[w.dirname].exists,
                                        entries |-> index[w.dirname].entries]])
        /\ UNCHANGED <<devfs, staging, dirs, index, devlinks, nodes, nops, mode, find, perm, esc, hist>>

\* r = link_find_prioritized(dev, add, dirname, &target): the directory is
\* read in one step.  -ENOENT leads to the removal of the link, a target to
\* node_symlink(dev, target, slink).
LuFind(d) ==
    LET w == wk[d]
        dir == index[w.dirname]
        f == link_find_prioritized(d, w.add, dir.exists, dir.entries, StaticDb)
    IN  /\ Scheduled(d)
        /\ w.pc = "lu_find"
        /\ IF f.r = -ENOENT
           THEN SetWk(d, [w EXCEPT !.pc = "lu_unlink_slink"])
           ELSE SetWk(d, NodeSymlinkCall(w, "link_update", f.target, LinkPath(w.slink)))
        /\ UNCHANGED <<devfs, staging, dirs, index, devlinks, nodes, nops, mode, find, perm, esc, hist>>

\* if (unlink(slink) == 0) ...: a link or a device node at slink is removed;
\* unlink() fails on nothing (ENOENT) and on a directory (EISDIR), and then
\* the loop is left at once.
LuUnlinkSlink(d) ==
    LET w == wk[d]
        p == LinkPath(w.slink)
    IN  /\ Scheduled(d)
        /\ w.pc = "lu_unlink_slink"
        /\ IF devfs[p].type \in {"lnk", "node"}
           THEN /\ devfs' = [devfs EXCEPT ![p] = NoFile]
                /\ SetWk(d, [w EXCEPT !.pc = "lu_rmdir_parents"])
           ELSE /\ UNCHANGED devfs
                /\ SetWk(d, LinkUpdateReturn(w))
        /\ UNCHANGED <<staging, dirs, index, devlinks, nodes, nops, mode, find, perm, esc, hist>>

\* (void) rmdir_parents(slink, "/"): the directory of the link is removed
\* when it is empty (/dev itself never is); then break.
LuRmdirParents(d) ==
    LET w == wk[d]
        dir == Dirname(LinkPath(w.slink))
    IN  /\ Scheduled(d)
        /\ w.pc = "lu_rmdir_parents"
        /\ dirs' = IF DirEmpty(dir) THEN dirs \ {dir} ELSE dirs
        /\ SetWk(d, LinkUpdateReturn(w))
        /\ UNCHANGED <<devfs, staging, index, devlinks, nodes, nops, mode, find, perm, esc, hist>>

\* (void) unlink(filename) after node_symlink() failed; then break.
LuUndoClaim(d) ==
    LET w == wk[d]
        dir == index[w.dirname]
    IN  /\ Scheduled(d)
        /\ w.pc = "lu_undo"
        /\ index' = [index EXCEPT ![w.dirname] =
                        IF dir.exists /\ d \in Range(dir.entries)
                        THEN IndexUnlink(dir, d) ELSE @]
        /\ SetWk(d, LinkUpdateReturn(w))
        /\ UNCHANGED <<devfs, staging, dirs, devlinks, nodes, nops, mode, find, perm, esc, hist>>

\* r = stat(dirname, &st2); if (stat_inode_unmodified(&st1, &st2)) break;
LuStat2(d) ==
    LET w == wk[d]
        st2 == Stat(index[w.dirname])
    IN  /\ Scheduled(d)
        /\ w.pc = "lu_stat2"
        /\ IF stat_inode_unmodified(w.st1, st2)
           THEN SetWk(d, LinkUpdateReturn(w))
           ELSE SetWk(d, LoopContinue(w))
        /\ UNCHANGED <<devfs, staging, dirs, index, devlinks, nodes, nops, mode, find, perm, esc, hist>>

(* ------------------------------------------------------------------ *)
(* node_symlink()                                                       *)
(* ------------------------------------------------------------------ *)

\* node_symlink_lstat without the test S_ISBLK || S_ISCHR: a device node is
\* replaced like any other file.
node_symlink_lstat_NoNodeTest(type) ==
    CASE type = "lnk" -> "ns_readlink"
      [] type = "none" -> "ns_mkdir"
      [] OTHER -> "ns_unlink_tmp"

\* What lstat(slink, &stats) leads to: the error for a device node, the
\* comparison of the text for a link, the creation for nothing, and the
\* replacement for anything else.
node_symlink_lstat(type) ==
    CASE type = "node" -> "EOPNOTSUPP"
      [] type = "lnk" -> "ns_readlink"
      [] type = "none" -> "ns_mkdir"
      [] OTHER -> "ns_unlink_tmp"

\* if (lstat(slink, &stats) == 0) { if (S_ISBLK || S_ISCHR) return -EOPNOTSUPP; ...
NsLstat(d) ==
    LET w == wk[d]
        next == node_symlink_lstat(devfs[w.ns_slink].type)
    IN  /\ Scheduled(d)
        /\ w.pc = "ns_lstat"
        /\ IF next = "EOPNOTSUPP"
           THEN SetWk(d, NodeSymlinkReturn(w, -EOPNOTSUPP))
           ELSE SetWk(d, [w EXCEPT !.pc = next])
        /\ UNCHANGED <<devfs, staging, dirs, index, devlinks, nodes, nops, mode, find, perm, esc, hist>>

\* The comparison that never finds the link to be the wanted one.
PreserveLink_Never(f, target) == FALSE

\* if (readlink_malloc(slink, &buf) >= 0 && streq(target, buf)): whether
\* the file f at slink is a link with the text target.
PreserveLink(f, target) == f.type = "lnk" /\ f.text = target

\* S_ISLNK(stats.st_mode) and the link is the wanted one: it is kept (its
\* label and timestamp refreshed) and 0 returned; a link that differs or
\* has gone since lstat() is replaced.
NsReadlink(d) ==
    LET w == wk[d]
        f == devfs[w.ns_slink]
    IN  /\ Scheduled(d)
        /\ w.pc = "ns_readlink"
        /\ IF PreserveLink(f, w.ns_text)
           THEN SetWk(d, NodeSymlinkReturn(w, 0))
           ELSE SetWk(d, [w EXCEPT !.pc = "ns_unlink_tmp"])
        /\ UNCHANGED <<devfs, staging, dirs, index, devlinks, nodes, nops, mode, find, perm, esc, hist>>

\* r = mkdir_parents_label(slink, 0755) of the first do-while loop.
NsMkdirParents(d) ==
    LET w == wk[d]
    IN  /\ Scheduled(d)
        /\ w.pc = "ns_mkdir"
        /\ dirs' = dirs \cup {Dirname(w.ns_slink)}
        /\ SetWk(d, [w EXCEPT !.pc = "ns_symlink"])
        /\ UNCHANGED <<devfs, staging, index, devlinks, nodes, nops, mode, find, perm, esc, hist>>

\* symlink(target, slink): -ENOENT without the directory (the loop goes
\* round), -EEXIST on anything that lies there (the link is then replaced),
\* else the link is made and 0 returned.
NsSymlink(d) ==
    LET w == wk[d]
    IN  /\ Scheduled(d)
        /\ w.pc = "ns_symlink"
        /\ IF Dirname(w.ns_slink) \notin dirs
           THEN /\ UNCHANGED devfs
                /\ SetWk(d, [w EXCEPT !.pc = "ns_mkdir"])
           ELSE IF devfs[w.ns_slink].type /= "none"
           THEN /\ UNCHANGED devfs
                /\ SetWk(d, [w EXCEPT !.pc = "ns_unlink_tmp"])
           ELSE /\ devfs' = [devfs EXCEPT ![w.ns_slink] = Symlink(w.ns_text)]
                /\ SetWk(d, NodeSymlinkReturn(w, 0))
        /\ UNCHANGED <<staging, dirs, index, devlinks, nodes, nops, mode, find, perm, esc, hist>>

\* (void) unlink(slink_tmp), slink_tmp being slink ".tmp-" id.
NsUnlinkTmp(d) ==
    LET w == wk[d]
    IN  /\ Scheduled(d)
        /\ w.pc = "ns_unlink_tmp"
        /\ staging' = [staging EXCEPT ![w.ns_slink][d] = <<>>]
        /\ SetWk(d, [w EXCEPT !.pc = "ns_mkdir_tmp"])
        /\ UNCHANGED <<devfs, dirs, index, devlinks, nodes, nops, mode, find, perm, esc, hist>>

\* r = mkdir_parents_label(slink_tmp, 0755) of the second do-while loop.
NsMkdirParentsTmp(d) ==
    LET w == wk[d]
    IN  /\ Scheduled(d)
        /\ w.pc = "ns_mkdir_tmp"
        /\ dirs' = dirs \cup {Dirname(w.ns_slink)}
        /\ SetWk(d, [w EXCEPT !.pc = "ns_symlink_tmp"])
        /\ UNCHANGED <<devfs, staging, index, devlinks, nodes, nops, mode, find, perm, esc, hist>>

\* symlink(target, slink_tmp): -ENOENT without the directory (the loop goes
\* round), -EEXIST on a staging link left there (returned), else the staging
\* link is made.
NsSymlinkTmp(d) ==
    LET w == wk[d]
    IN  /\ Scheduled(d)
        /\ w.pc = "ns_symlink_tmp"
        /\ IF Dirname(w.ns_slink) \notin dirs
           THEN /\ UNCHANGED staging
                /\ SetWk(d, [w EXCEPT !.pc = "ns_mkdir_tmp"])
           ELSE IF staging[w.ns_slink][d] /= <<>>
           THEN /\ UNCHANGED staging
                /\ SetWk(d, NodeSymlinkReturn(w, -EEXIST))
           ELSE /\ staging' = [staging EXCEPT ![w.ns_slink][d] = w.ns_text]
                /\ SetWk(d, [w EXCEPT !.pc = "ns_rename"])
        /\ UNCHANGED <<devfs, dirs, index, devlinks, nodes, nops, mode, find, perm, esc, hist>>

\* The replacement in two steps: a link with another text is unlinked,
\* the staging link with it, and symlink(target, slink) makes the new one.
NsRename_UnlinkFirst(d) ==
    LET w == wk[d]
        f == devfs[w.ns_slink]
    IN  /\ Scheduled(d)
        /\ w.pc = "ns_rename"
        /\ IF f.type = "dir"
           THEN /\ UNCHANGED <<devfs, staging>>
                /\ SetWk(d, [w EXCEPT !.pc = "ns_rename_failed"])
           ELSE IF f.type = "lnk" /\ f.text /= staging[w.ns_slink][d]
           THEN /\ devfs' = [devfs EXCEPT ![w.ns_slink] = NoFile]
                /\ staging' = [staging EXCEPT ![w.ns_slink][d] = <<>>]
                /\ SetWk(d, [w EXCEPT !.pc = "ns_symlink"])
           ELSE /\ devfs' = [devfs EXCEPT ![w.ns_slink] = Symlink(staging[w.ns_slink][d])]
                /\ staging' = [staging EXCEPT ![w.ns_slink][d] = <<>>]
                /\ SetWk(d, NodeSymlinkReturn(w, 1))
        /\ UNCHANGED <<dirs, index, devlinks, nodes, nops, mode, find, perm, esc, hist>>

\* rename(slink_tmp, slink): fails on a directory at slink (EISDIR), and the
\* staging link is then unlinked; else whatever lies at slink is replaced
\* by the staging link and 1 returned.
NsRename(d) ==
    LET w == wk[d]
    IN  /\ Scheduled(d)
        /\ w.pc = "ns_rename"
        /\ IF devfs[w.ns_slink].type = "dir"
           THEN /\ UNCHANGED <<devfs, staging>>
                /\ SetWk(d, [w EXCEPT !.pc = "ns_rename_failed"])
           ELSE /\ devfs' = [devfs EXCEPT ![w.ns_slink] = Symlink(staging[w.ns_slink][d])]
                /\ staging' = [staging EXCEPT ![w.ns_slink][d] = <<>>]
                /\ SetWk(d, NodeSymlinkReturn(w, 1))
        /\ UNCHANGED <<dirs, index, devlinks, nodes, nops, mode, find, perm, esc, hist>>

\* (void) unlink(slink_tmp) after rename() failed; the error is returned.
NsRenameFailed(d) ==
    LET w == wk[d]
    IN  /\ Scheduled(d)
        /\ w.pc = "ns_rename_failed"
        /\ staging' = [staging EXCEPT ![w.ns_slink][d] = <<>>]
        /\ SetWk(d, NodeSymlinkReturn(w, -EISDIR))
        /\ UNCHANGED <<devfs, dirs, index, devlinks, nodes, nops, mode, find, perm, esc, hist>>

(* ------------------------------------------------------------------ *)
(* Specifications                                                       *)
(* ------------------------------------------------------------------ *)

\* What may lie at the path of L1 before the first call: nothing, a device
\* node of another device, or a directory.
InitialObjects == {NoFile, DeviceNode, Directory}

\* The device node of d as devtmpfs makes it: root:root, mode 0600.
KernelNode(d) ==
    [exists |-> TRUE,
     st_mode |-> (IF Subsystem(d) = "block" THEN S_IFBLK ELSE S_IFCHR) + 384,
     st_rdev |-> d,
     st_uid |-> 0, st_gid |-> 0, selinux |-> "default",
     smack |-> "none", touched |-> FALSE]

\* No call of link_find_prioritized() on its own.
NoFind ==
    [dev |-> "none", add |-> FALSE, exists |-> FALSE, entries |-> <<>>,
     db |-> StaticDb, done |-> FALSE, r |-> 0, target |-> NoTarget]

\* No call of escape_path() on its own.
NoEsc == [src |-> <<>>, size |-> 1, done |-> FALSE, dest |-> <<>>, r |-> 0]

\* No call of node_permissions_apply() on its own.
NoPerm == [dev |-> "none", args |-> AddArgs, before |-> NoNode, done |-> FALSE, r |-> 0]

InitFs ==
    /\ \E f \in InitialObjects :
          devfs = [p \in Paths |-> IF p = LinkPath("L1") THEN f ELSE NoFile]
    /\ dirs = {Dirname(p) : p \in {q \in Paths : devfs[q].type /= "none"}}
    /\ staging = [p \in Paths |-> [d \in Devices |-> <<>>]]
    /\ index = [x \in IndexDirs |-> NoDir]
    /\ devlinks \in [Devices -> UNION {DevlinkChoices(d) : d \in Devices}]
    /\ \A d \in Devices : devlinks[d] \in DevlinkChoices(d)
    /\ nodes = [d \in Devices |-> KernelNode(d)]
    /\ wk = [d \in Devices |-> IdleWorker]
    /\ nops = 0
    /\ hist = [NoHist EXCEPT !.initial = devfs[LinkPath("L1")]]
    /\ find = NoFind
    /\ perm = NoPerm
    /\ esc = NoEsc

\* The system calls of a call under way.
Syscalls(d) ==
    \/ RmUnlinkCanon(d)
    \/ LuUnlinkClaim(d)
    \/ LuRmdir(d)
    \/ LuMkdirParents(d)
    \/ LuOpen(d)
    \/ LuStat1(d)
    \/ LuFind(d)
    \/ LuUnlinkSlink(d)
    \/ LuRmdirParents(d)
    \/ LuUndoClaim(d)
    \/ LuStat2(d)
    \/ NsLstat(d)
    \/ NsReadlink(d)
    \/ NsMkdirParents(d)
    \/ NsSymlink(d)
    \/ NsUnlinkTmp(d)
    \/ NsMkdirParentsTmp(d)
    \/ NsSymlinkTmp(d)
    \/ NsRename(d)
    \/ NsRenameFailed(d)

Step(d) ==
    \/ UdevNodeAdd(d)
    \/ UdevNodeRemove(d)
    \/ \E new \in DevlinkChoices(d) : UdevNodeUpdateOldLinks(d, new)
    \/ Syscalls(d)

Next == \E d \in Devices : Step(d)

\* Concurrent workers.
Init == mode = "conc" /\ InitFs

Spec == Init /\ [][Next]_vars

\* One call at a time.
SeqInit == mode = "seq" /\ InitFs

SeqSpec == SeqInit /\ [][Next]_vars

\* One call at a time on a link whose escaped name does not fit in
\* name_enc: every device declares L3, and a new revision of a device keeps
\* it or drops it.
LongLinkChoices == {<<>>, <<"L3">>}

OverflowInit ==
    /\ mode = "seq"
    /\ \E f \in InitialObjects :
          devfs = [p \in Paths |-> IF p = LinkPath("L3") THEN f ELSE NoFile]
    /\ dirs = {Dirname(p) : p \in {q \in Paths : devfs[q].type /= "none"}}
    /\ staging = [p \in Paths |-> [d \in Devices |-> <<>>]]
    /\ index = [x \in IndexDirs |-> NoDir]
    /\ devlinks = [d \in Devices |-> <<"L3">>]
    /\ nodes = [d \in Devices |-> KernelNode(d)]
    /\ wk = [d \in Devices |-> IdleWorker]
    /\ nops = 0
    /\ hist = NoHist
    /\ find = NoFind
    /\ perm = NoPerm
    /\ esc = NoEsc

OverflowStep(d) ==
    \/ UdevNodeAdd(d)
    \/ UdevNodeRemove(d)
    \/ \E new \in LongLinkChoices : UdevNodeUpdateOldLinks(d, new)
    \/ Syscalls(d)

OverflowNext == \E d \in Devices : OverflowStep(d)

OverflowSpec == OverflowInit /\ [][OverflowNext]_vars

\* udev_node_add() and udev_node_remove(), one call at a time, of devices
\* that declare a link outside /dev before or among their other links.
OutsideChoices(d) ==
    CASE d = "A" -> {<<Outside, "L1", "L2">>, <<"L1", Outside, "L2">>}
      [] d = "B" -> {<<Outside, "L1">>}
      [] OTHER -> {<<"L1">>}

IsolationInit ==
    /\ mode = "seq"
    /\ \E f \in InitialObjects :
          devfs = [p \in Paths |-> IF p = LinkPath("L1") THEN f ELSE NoFile]
    /\ dirs = {Dirname(p) : p \in {q \in Paths : devfs[q].type /= "none"}}
    /\ staging = [p \in Paths |-> [d \in Devices |-> <<>>]]
    /\ index = [x \in IndexDirs |-> NoDir]
    /\ \E a \in OutsideChoices("A") :
          devlinks = [d \in Devices |->
                        IF d = "A" THEN a ELSE CHOOSE c \in OutsideChoices(d) : TRUE]
    /\ nodes = [d \in Devices |-> KernelNode(d)]
    /\ wk = [d \in Devices |-> IdleWorker]
    /\ nops = 0
    /\ hist = [NoHist EXCEPT !.initial = devfs[LinkPath("L1")]]
    /\ find = NoFind
    /\ perm = NoPerm
    /\ esc = NoEsc

IsolationStep(d) ==
    \/ UdevNodeAdd(d)
    \/ UdevNodeRemove(d)
    \/ Syscalls(d)

IsolationNext == \E d \in Devices : IsolationStep(d)

IsolationSpec == IsolationInit /\ [][IsolationNext]_vars

\* What may lie at the path of a canonical link before the first call: what
\* may lie at the path of a stable link, or the link of a device that bore
\* the device number before and is gone.
CanonObjects(d) ==
    InitialObjects \cup
        {Symlink(PathMakeRelative(Dirname(DevNumPath(d)), DevName(Stranger)))}

\* One call at a time, with something at the path of one canonical link or
\* at the path of L1.
CanonInit ==
    /\ mode = "seq"
    /\ \/ \E e \in Devices : \E f \in CanonObjects(e) :
             devfs = [p \in Paths |-> IF p = DevNumPath(e) THEN f ELSE NoFile]
       \/ \E f \in InitialObjects :
             devfs = [p \in Paths |-> IF p = LinkPath("L1") THEN f ELSE NoFile]
    /\ dirs = {Dirname(p) : p \in {q \in Paths : devfs[q].type /= "none"}}
    /\ staging = [p \in Paths |-> [d \in Devices |-> <<>>]]
    /\ index = [x \in IndexDirs |-> NoDir]
    /\ devlinks \in [Devices -> UNION {DevlinkChoices(d) : d \in Devices}]
    /\ \A d \in Devices : devlinks[d] \in DevlinkChoices(d)
    /\ nodes = [d \in Devices |-> KernelNode(d)]
    /\ wk = [d \in Devices |-> IdleWorker]
    /\ nops = 0
    /\ hist = NoHist
    /\ find = NoFind
    /\ perm = NoPerm
    /\ esc = NoEsc

CanonSpec == CanonInit /\ [][Next]_vars

(* ------------------------------------------------------------------ *)
(* The environment of mode "churn": the system calls that other workers *)
(* make on the index while link_update() runs                           *)
(* ------------------------------------------------------------------ *)

\* The other workers run in mode "churn" only.
Churning == mode = "churn"

\* mkdir_parents(filename, 0755) of another worker.
ChurnMkdir(x) ==
    /\ Churning
    /\ ~index[x].exists
    /\ index' = [index EXCEPT ![x] =
                    [exists |-> TRUE, entries |-> <<>>, stamp |-> FreshStamp]]
    /\ UNCHANGED <<devfs, staging, dirs, devlinks, nodes, wk, nops, mode, find, perm, esc, hist>>

\* open(filename, O_CREAT ...) of another worker: the claim file of the
\* stranger appears.
ChurnOpen(x) ==
    /\ Churning
    /\ index[x].exists
    /\ Stranger \notin Range(index[x].entries)
    /\ \E es \in Inserted(index[x].entries, Stranger) :
          index' = [index EXCEPT ![x] =
                        [exists |-> TRUE, entries |-> es, stamp |-> FreshStamp]]
    /\ UNCHANGED <<devfs, staging, dirs, devlinks, nodes, wk, nops, mode, find, perm, esc, hist>>

\* unlink(filename) of another worker: the claim file of the stranger goes.
ChurnUnlink(x) ==
    /\ Churning
    /\ index[x].exists
    /\ Stranger \in Range(index[x].entries)
    /\ index' = [index EXCEPT ![x] = IndexUnlink(index[x], Stranger)]
    /\ UNCHANGED <<devfs, staging, dirs, devlinks, nodes, wk, nops, mode, find, perm, esc, hist>>

\* rmdir(dirname) of another worker that has unlinked its claim file.
ChurnRmdir(x) ==
    /\ Churning
    /\ index[x].exists
    /\ index[x].entries = <<>>
    /\ index' = [index EXCEPT ![x] = NoDir]
    /\ UNCHANGED <<devfs, staging, dirs, devlinks, nodes, wk, nops, mode, find, perm, esc, hist>>

\* The directories the other workers work in: they compete for L1.
ChurnDirs == {IndexDirOf("L1")}

Churn ==
    \E x \in ChurnDirs :
        \/ ChurnMkdir(x)
        \/ ChurnOpen(x)
        \/ ChurnUnlink(x)
        \/ ChurnRmdir(x)

ChurnNext == Next \/ Churn

\* What a completed udev_node_add(d) leaves behind when d declares L1
\* alone, nothing lay at L1 and no other device claimed it: the canonical
\* link, the link, the claim file of d and the permissions of the node.
AfterAdd(d) ==
    /\ devfs = [p \in Paths |->
                IF p \in {LinkPath("L1"), DevNumPath(d)}
                THEN Symlink(PathMakeRelative(Dirname(p), DevName(d)))
                ELSE NoFile]
    /\ dirs = {Dirname(LinkPath("L1")), Dirname(DevNumPath(d))}
    /\ staging = [p \in Paths |-> [e \in Devices |-> <<>>]]
    /\ index = [x \in IndexDirs |->
                IF x = IndexDirOf("L1")
                THEN [exists |-> TRUE, entries |-> <<d>>, stamp |-> 2]
                ELSE NoDir]
    /\ nodes = [e \in Devices |->
                IF e = d THEN node_permissions_apply(d, AddArgs, KernelNode(d)).node
                ELSE KernelNode(e)]
    /\ devlinks = [e \in Devices |-> <<"L1">>]
    /\ wk = [e \in Devices |-> IdleWorker]
    /\ nops = 0
    /\ hist = NoHist
    /\ find = NoFind
    /\ perm = NoPerm
    /\ esc = NoEsc

\* Every device declares L1 alone; the run starts on a fresh /dev or after
\* the initialized worker has been added.
ChurnInit ==
    /\ mode = "churn"
    /\ InitFs \/ AfterAdd("A")
    /\ \A d \in Devices : devlinks[d] = <<"L1">>

\* The scheduler lets a worker that can take a step take it; nothing makes
\* the other workers stop.
ChurnSpec == ChurnInit /\ [][ChurnNext]_vars /\ WF_vars(Next)

(* ------------------------------------------------------------------ *)
(* Mode "find": link_find_prioritized() on its own                      *)
(* ------------------------------------------------------------------ *)

\* The sequences of at most n distinct elements of S.
DistinctSeqs(S, n) ==
    {q \in UNION {[1..k -> S] : k \in 0..n} :
        \A i, j \in DOMAIN q : i /= j => q[i] /= q[j]}

\* The priorities the database may hold: below, at and above the priority
\* of each device that calls.
DbPriorities == {-1, 0, 10, 11}

\* What the database may hold for a device id: a claimant in the directory
\* may resolve or not and have any priority; its devname is that of its
\* device.
DbChoices(id, entries) ==
    IF id \in Range(entries)
    THEN {[ok |-> FALSE, devname |-> DevName(id), prio |-> 0]}
         \cup {[ok |-> TRUE, devname |-> DevName(id), prio |-> p] : p \in DbPriorities}
    ELSE {StaticDb[id]}

Databases(entries) ==
    [A : DbChoices("A", entries), B : DbChoices("B", entries),
     C : DbChoices("C", entries), X : DbChoices("X", entries)]

\* The calls link_update() can make: in remove mode the caller's own claim
\* file has been unlinked before the call; a directory that is missing has
\* no entries.
FindInit ==
    /\ mode = "find"
    /\ devfs = [p \in Paths |-> NoFile]
    /\ dirs = {}
    /\ staging = [p \in Paths |-> [d \in Devices |-> <<>>]]
    /\ index = [x \in IndexDirs |-> NoDir]
    /\ devlinks = [d \in Devices |-> <<"L1">>]
    /\ nodes = [d \in Devices |-> KernelNode(d)]
    /\ wk = [d \in Devices |-> IdleWorker]
    /\ nops = 0
    /\ hist = NoHist
    /\ perm = NoPerm
    /\ esc = NoEsc
    /\ \E dev \in Devices, add, exists \in BOOLEAN :
         \E entries \in DistinctSeqs(DeviceIds, MaxEntries) :
            /\ ~add => dev \notin Range(entries)
            /\ ~exists => entries = <<>>
            /\ \E db \in Databases(entries) :
                  find = [NoFind EXCEPT !.dev = dev, !.add = add, !.exists = exists,
                                        !.entries = entries, !.db = db]

\* r = link_find_prioritized(dev, add, dirname, &target)
FindCall ==
    LET f == link_find_prioritized(find.dev, find.add, find.exists,
                                   find.entries, find.db)
    IN  /\ mode = "find"
        /\ ~find.done
        /\ find' = [find EXCEPT !.done = TRUE, !.r = f.r, !.target = f.target]
        /\ UNCHANGED <<devfs, staging, dirs, index, devlinks, nodes, wk, nops, mode, hist, perm, esc>>

FindNext == FindCall

FindSpec == FindInit /\ [][FindNext]_vars

(* ------------------------------------------------------------------ *)
(* Mode "perm": node_permissions_apply() on its own                     *)
(* ------------------------------------------------------------------ *)

\* The mode, uid and gid arguments: none, or the permission bits 0600 and
\* 0660, the users 0 and 1, the groups 0 and 6.
PermModes == {MODE_INVALID, 384, 432}
PermUids == {UID_INVALID, 0, 1}
PermGids == {GID_INVALID, 0, 6}

\* The SECLABEL lists: empty, a label for SELinux, a label for SMACK.
PermSeclabels ==
    {<<>>, <<[name |-> "selinux", label |-> "s1"]>>,
     <<[name |-> "smack", label |-> "m1"]>>}

PermArgs ==
    [apply : BOOLEAN, mode : PermModes, uid : PermUids, gid : PermGids,
     seclabel_list : PermSeclabels]

\* What may lie at the devname of dev: nothing, or a block or character
\* device node of dev's device number or of another one.
PermNodes(dev) ==
    {NoNode} \cup
    [exists : {TRUE}, st_mode : {t + p : t \in {S_IFBLK, S_IFCHR}, p \in {384, 432}},
     st_rdev : {dev, Stranger}, st_uid : {0, 1}, st_gid : {0, 6},
     selinux : {"default"}, smack : {"none"}, touched : {FALSE}]

PermInit ==
    /\ mode = "perm"
    /\ devfs = [p \in Paths |-> NoFile]
    /\ dirs = {}
    /\ staging = [p \in Paths |-> [d \in Devices |-> <<>>]]
    /\ index = [x \in IndexDirs |-> NoDir]
    /\ devlinks = [d \in Devices |-> <<"L1">>]
    /\ wk = [d \in Devices |-> IdleWorker]
    /\ nops = 0
    /\ hist = NoHist
    /\ find = NoFind
    /\ \E dev \in Devices, a \in PermArgs :
         \E nd \in PermNodes(dev) :
            /\ nodes = [d \in Devices |-> IF d = dev THEN nd ELSE KernelNode(d)]
            /\ perm = [NoPerm EXCEPT !.dev = dev, !.args = a, !.before = nd]
    /\ esc = NoEsc

\* r = node_permissions_apply(dev, apply, mode, uid, gid, seclabel_list)
PermCall ==
    LET f == node_permissions_apply(perm.dev, perm.args, nodes[perm.dev])
    IN  /\ mode = "perm"
        /\ ~perm.done
        /\ nodes' = [nodes EXCEPT ![perm.dev] = f.node]
        /\ perm' = [perm EXCEPT !.done = TRUE, !.r = f.r]
        /\ UNCHANGED <<devfs, staging, dirs, index, devlinks, wk, nops, mode, hist, find, esc>>

PermNext == PermCall

PermSpec == PermInit /\ [][PermNext]_vars

(* ------------------------------------------------------------------ *)
(* Mode "esc": escape_path() on its own                                 *)
(* ------------------------------------------------------------------ *)

\* The bytes of src: the two that are escaped, and two that are not, one
\* of them part of the escape sequences.
EscBytes == {"/", "\\", "a", "x"}

\* src, a string of at most MaxSrcLen bytes.
EscSources == UNION {[1..n -> EscBytes] : n \in 0..MaxSrcLen}

\* size, the room in dest: at least the terminating NUL.
EscSizes == 1..MaxBufSize

EscInit ==
    /\ mode = "esc"
    /\ devfs = [p \in Paths |-> NoFile]
    /\ dirs = {}
    /\ staging = [p \in Paths |-> [d \in Devices |-> <<>>]]
    /\ index = [x \in IndexDirs |-> NoDir]
    /\ devlinks = [d \in Devices |-> <<"L1">>]
    /\ nodes = [d \in Devices |-> KernelNode(d)]
    /\ wk = [d \in Devices |-> IdleWorker]
    /\ nops = 0
    /\ hist = NoHist
    /\ find = NoFind
    /\ perm = NoPerm
    /\ \E src \in EscSources, size \in EscSizes :
          esc = [NoEsc EXCEPT !.src = src, !.size = size]

\* r = escape_path(src, dest, size)
EscCall ==
    /\ mode = "esc"
    /\ ~esc.done
    /\ esc' = [esc EXCEPT !.done = TRUE,
                          !.dest = escape_path(esc.src, esc.size),
                          !.r = escape_path_return(esc.src, esc.size)]
    /\ UNCHANGED <<devfs, staging, dirs, index, devlinks, nodes, wk, nops, mode, hist, find, perm>>

EscNext == EscCall

EscSpec == EscInit /\ [][EscNext]_vars

(* ------------------------------------------------------------------ *)
(* Observations shared by the properties                                *)
(* ------------------------------------------------------------------ *)

\* Every worker is outside every call.
AllReturned == \A d \in Devices : wk[d].pc = "idle"

\* The devices whose claim file lies in the index directory of link l.
Claimants(l) == Range(index[IndexDirOf(l)].entries)

\* The link l is a symbolic link that leads to the device node of d.
PointsTo(l, d) ==
    /\ devfs[LinkPath(l)].type = "lnk"
    /\ ResolveFrom(Dirname(LinkPath(l)), devfs[LinkPath(l)].text) = DevName(d)

\* d has the strictly highest priority among the devices of the set ds.
StrictlyHighest(d, ds) ==
    /\ d \in ds
    /\ \A e \in ds \ {d} : DevlinkPriority(e) < DevlinkPriority(d)

\* Nothing lay at the path of a link before the first call, and no call
\* but udev_node_add() and udev_node_remove() was made.
PlainRun == hist.initial = NoFile /\ ~hist.updated

(* ------------------------------------------------------------------ *)
(* C1                                                                   *)
(* ------------------------------------------------------------------ *)

\* C1: once every concurrent worker has returned from its udev_node_add()
\* and udev_node_remove() calls, each link leads to the device with the
\* strictly highest priority among those whose claim file is in the index,
\* and a link is absent only when no claim file remains.
C1_ConcurrentConvergence ==
    (AllReturned /\ PlainRun) =>
        \A l \in Links :
            /\ \A d \in Claimants(l) :
                    StrictlyHighest(d, Claimants(l)) => PointsTo(l, d)
            /\ devfs[LinkPath(l)].type = "none" => Claimants(l) = {}

(* ------------------------------------------------------------------ *)
(* C2                                                                   *)
(* ------------------------------------------------------------------ *)

\* The devices that declare link l and whose last call was udev_node_add().
Live(l) == {d \in Devices : wk[d].op = "add" /\ l \in Range(devlinks[d])}

Returned == {<<d, k>> \in Devices \X (1..Cardinality(Links)) : k <= Len(wk[d].rets)}

C4_ErrorReturned ==
    \A <<d, k>> \in Returned :
        LET ret == wk[d].rets[k]
        IN  (ret.add /\ ret.ns_err < 0)
            => (/\ ret.r = ret.ns_err
                /\ d \notin Claimants(ret.slink))

(* ------------------------------------------------------------------ *)
(* C7                                                                   *)
(* ------------------------------------------------------------------ *)

\* C7: while no call is in progress an index directory that exists holds at
\* least one claim file.
C7_ClaimGC ==
    AllReturned =>
        \A l \in Links :
            index[IndexDirOf(l)].exists => Claimants(l) /= {}

(* ------------------------------------------------------------------ *)
(* C5                                                                   *)
(* ------------------------------------------------------------------ *)

\* C5: whatever other workers do to the index, a worker that is inside a
\* call leaves it again, and its loop counter never exceeds the budget of
\* 128 iterations.
C5_TerminationUnderChurn ==
    /\ [](\A d \in Devices : wk[d].i <= LINK_UPDATE_MAX_RETRIES)
    /\ \A d \in Devices : (wk[d].pc /= "idle") ~> (wk[d].pc = "idle")

(* ------------------------------------------------------------------ *)
(* C6                                                                   *)
(* ------------------------------------------------------------------ *)

\* The link_update() calls of worker d that left the loop through its test
\* i < retries, the whole budget used up.
Exhausted(d) ==
    {k \in DOMAIN wk[d].rets : wk[d].rets[k].i = link_update_retries(d)}

\* C6: a link_update() call whose loop used up its whole budget, 128
\* iterations for an initialized device and 1 for an uninitialized one,
\* returns -ELOOP.
C6_ExhaustionReturnsELOOP ==
    \A d \in Devices : \A k \in Exhausted(d) : wk[d].rets[k].r = -ELOOP

\* C6, amended: a link_update() call whose loop used up its whole budget
\* returns -ELOOP when the device is initialized (a budget of 128), and 0
\* when it is not (a budget of 1).
C6_ExhaustionResult ==
    \A d \in Devices : \A k \in Exhausted(d) :
        wk[d].rets[k].r = IF IsInitialized(d) THEN -ELOOP ELSE 0

\* The initialized worker has used up 128 iterations and returned -ELOOP.
C6_Witness ==
    \E k \in Exhausted("A") :
        /\ wk["A"].rets[k].i = LINK_UPDATE_MAX_RETRIES
        /\ wk["A"].rets[k].r = -ELOOP

(* ------------------------------------------------------------------ *)
(* C8                                                                   *)
(* ------------------------------------------------------------------ *)

\* udev_node_add() has returned for the second time in a row for the same
\* device with the same links, no other call in between.
AddedTwice == AllReturned /\ hist.cur.op = "add" /\ hist.prev = hist.cur

\* C8: after the second of two identical udev_node_add() calls in a row
\* every path under /dev holds what it held after the first, the index
\* directory of each link of the device holds the device's claim file, and
\* every link_update() of the second call returned 0 in its first
\* iteration.
C8_Idempotence ==
    AddedTwice =>
        LET d == hist.cur.dev
            rets == wk[d].rets
        IN  /\ devfs = hist.devfs
            /\ \A l \in Range(hist.cur.links) : d \in Claimants(l)
            /\ Len(rets) = Len(hist.cur.links)
            /\ \A k \in DOMAIN rets : rets[k].r = 0 /\ rets[k].i = 0

\* C8, amended: after the second of two identical udev_node_add() calls in
\* a row every path under /dev and every index directory holds what it
\* held after the first; the index directory of each link holds the
\* device's claim file if node_symlink() succeeded for that link and does
\* not hold it if node_symlink() failed; every link_update() of the second
\* call returned 0 in its first iteration.
C8_IdempotenceButConflict ==
    AddedTwice =>
        LET d == hist.cur.dev
            rets == wk[d].rets
        IN  /\ devfs = hist.devfs
            /\ Claims(index) = hist.index
            /\ Len(rets) = Len(hist.cur.links)
            /\ \A k \in DOMAIN rets :
                  /\ rets[k].slink = hist.cur.links[k]
                  /\ rets[k].r = 0
                  /\ rets[k].i = 0
                  /\ (rets[k].ns_err = 0) <=> (d \in Claimants(rets[k].slink))

\* The second call has returned with the link leading to the device and the
\* device's claim file in the index.
C8_Witness ==
    /\ AddedTwice
    /\ PointsTo("L1", hist.cur.dev)
    /\ hist.cur.dev \in Claimants("L1")

(* ------------------------------------------------------------------ *)
(* C9                                                                   *)
(* ------------------------------------------------------------------ *)

\* The claimants of the directory other than the caller that the database
\* resolves.
Resolvable ==
    {id \in Range(find.entries) : id /= find.dev /\ find.db[id].ok}

\* The target is the devname of a claimant of maximal priority.
TargetIsMaximal ==
    \E id \in Resolvable :
        /\ find.target = find.db[id].devname
        /\ \A e \in Resolvable : find.db[e].prio <= find.db[id].prio

\* C9: with a seed, link_find_prioritized() returns the caller's devname
\* unless another resolvable claimant has a strictly greater priority, and
\* then the devname of a claimant of maximal priority; without a seed it
\* returns the devname of a resolvable claimant of maximal priority, or
\* -ENOENT when the directory is missing or no claimant resolves.
C9_WinnerSelection ==
    find.done =>
        IF find.add
        THEN /\ find.r = 0
             /\ IF \E id \in Resolvable :
                        find.db[id].prio > DevlinkPriority(find.dev)
                THEN TargetIsMaximal
                ELSE find.target = DevName(find.dev)
        ELSE IF ~find.exists \/ Resolvable = {}
             THEN find.r = -ENOENT
             ELSE find.r = 0 /\ TargetIsMaximal

\* A call with a seed has kept the caller although another claimant that
\* resolves has the caller's priority.
C9_Witness ==
    /\ find.done
    /\ find.add
    /\ find.exists
    /\ \E id \in Resolvable : find.db[id].prio = DevlinkPriority(find.dev)
    /\ find.target = DevName(find.dev)

(* ------------------------------------------------------------------ *)
(* C10                                                                  *)
(* ------------------------------------------------------------------ *)

\* udev_node_update_old_links(dev, dev_old) has returned and no call has
\* started since.
Reconciled == AllReturned /\ hist.cur.op = "update"

\* The claim file of device d was in the index directory of link l when the
\* last call started.
HadClaim(d, l) == d \in Range(hist.index[IndexDirOf(l)].entries)

\* C10: udev_node_update_old_links(dev, dev_old) removes the claim file of
\* dev for the links of dev_old that dev does not declare and for no other
\* link, and leaves the claim files, the index directory and the symbolic
\* link of every link that dev declares as they were.
C10_ReconcileOldLinks ==
    Reconciled =>
        LET d == hist.cur.dev
            new == Range(hist.cur.links)
            old == Range(wk[d].old)
        IN  \A l \in Links :
              /\ l \in old \ new => d \notin Claimants(l)
              /\ l \notin old \ new => (d \in Claimants(l) <=> HadClaim(d, l))
              /\ l \in new =>
                    /\ Claims(index)[IndexDirOf(l)] = hist.index[IndexDirOf(l)]
                    /\ devfs[LinkPath(l)] = hist.devfs[LinkPath(l)]

\* The device declared L1 and L2 and had claimed both, its new revision
\* declares L1 alone: the claim on L2 is gone and the one on L1 is there.
C10_Witness ==
    /\ Reconciled
    /\ wk[hist.cur.dev].old = <<"L1", "L2">>
    /\ hist.cur.links = <<"L1">>
    /\ HadClaim(hist.cur.dev, "L1")
    /\ HadClaim(hist.cur.dev, "L2")
    /\ hist.cur.dev \in Claimants("L1")
    /\ hist.cur.dev \notin Claimants("L2")

(* ------------------------------------------------------------------ *)
(* C11                                                                  *)
(* ------------------------------------------------------------------ *)

\* The file-type bits a node of the device must have.
ExpectedType(dev) == IF Subsystem(dev) = "block" THEN S_IFBLK ELSE S_IFCHR

\* The node found at the devname is not the device's: its type or its
\* device number differs.
ForeignNode ==
    /\ perm.before.exists
    /\ \/ FmtBits(perm.before.st_mode) /= ExpectedType(perm.dev)
       \/ perm.before.st_rdev /= perm.dev

\* C11: node_permissions_apply() on a node whose type bits differ from the
\* type of the device's subsystem, or whose st_rdev differs from the
\* device's devnum, returns 0 and leaves the node's mode, owner, group,
\* labels and timestamps as they were, whatever the mode argument is.
C11_ForeignNodeUntouched ==
    (perm.done /\ ForeignNode) =>
        perm.r = 0 /\ nodes[perm.dev] = perm.before

(* ------------------------------------------------------------------ *)
(* C12: a link whose escaped name overflows name_enc                    *)
(* ------------------------------------------------------------------ *)

\* The links whose escaped name does not fit: escape_path() leaves "" in
\* name_enc.
Overflowing == {l \in Links : Len(IndexDirOf(l)) = 0}

\* C12: when the escaped name of a link does not fit in the buffer,
\* link_update() fails for that link: every call of it returns an error,
\* no claim file and no directory is made under the empty name, and no
\* symlink is made at the link's path.
C12_OverflowRejected ==
    \A l \in Overflowing :
        /\ ~index[IndexDirOf(l)].exists
        /\ index[IndexDirOf(l)].entries = <<>>
        /\ devfs[LinkPath(l)].type /= "lnk"
        /\ \A d \in Devices : \A k \in 1..Len(wk[d].rets) :
               wk[d].rets[k].slink = l => wk[d].rets[k].r < 0

(* ------------------------------------------------------------------ *)
(* C13: the canonical link                                              *)
(* ------------------------------------------------------------------ *)

\* /dev/block/<major>:<minor> for a device of subsystem "block",
\* /dev/char/<major>:<minor> for any other.
CanonicalPath(d) ==
    IF Subsystem(d) = "block" THEN <<"dev", "block", d>> ELSE <<"dev", "char", d>>

\* The canonical path of d is a symbolic link that leads to d's devname.
HasCanonical(d) ==
    /\ devfs[CanonicalPath(d)].type = "lnk"
    /\ ResolveFrom(Dirname(CanonicalPath(d)), devfs[CanonicalPath(d)].text) = DevName(d)

\* The step in which the call op of device d returns.
Returns(d, op) == wk[d].pc /= "idle" /\ wk'[d].pc = "idle" /\ wk[d].op = op

\* The canonical link of d goes away only in the unlink() that ends
\* udev_node_remove(), after link_update() has returned for every link of d.
CanonicalKept(d) ==
    (HasCanonical(d) /\ ~HasCanonical(d)') =>
        /\ wk[d].op = "remove" /\ wk[d].pc = "rm_unlink"
        /\ wk[d].todo = <<>> /\ Len(wk[d].rets) = Len(devlinks[d])

\* C13: when udev_node_add() of a device returns, its canonical path
\* (/dev/block/... for subsystem "block", /dev/char/... otherwise) is a
\* symlink that leads to its devname; the link stays until the last step of
\* udev_node_remove(), taken after all the device's links are processed; and
\* when udev_node_remove() returns the path is absent.
C13_CanonicalLink ==
    [][\A d \in Devices :
        /\ Returns(d, "add") => HasCanonical(d)'
        /\ CanonicalKept(d)
        /\ Returns(d, "remove") => devfs'[CanonicalPath(d)].type = "none"
      ]_vars

\* C13, amended: as C13 when nothing or a symlink lay at the canonical path
\* at the start of the call.  udev_node_add() ignores the result of
\* node_symlink(): over a device node or a directory it makes no link,
\* leaves the object where it is and returns 0 all the same; and
\* udev_node_remove() ignores the result of unlink(): a directory stays.
C13_CanonicalLinkUnlessBlocked ==
    [][\A d \in Devices :
        LET before == hist.devfs[CanonicalPath(d)]
        IN  /\ Returns(d, "add") =>
                   IF before.type \in {"none", "lnk"}
                   THEN HasCanonical(d)'
                   ELSE devfs'[CanonicalPath(d)] = before
            /\ CanonicalKept(d)
            /\ Returns(d, "remove") =>
                   IF before.type = "dir"
                   THEN devfs'[CanonicalPath(d)] = before
                   ELSE devfs'[CanonicalPath(d)].type = "none"
      ]_vars

\* udev_node_add() of the character device has returned, over the link of
\* a device that bore the number before, and /dev/char/... leads to its
\* devname.
C13_Witness ==
    \E d \in Devices :
        /\ wk[d].pc = "idle" /\ wk[d].op = "add"
        /\ hist.cur.dev = d
        /\ hist.devfs[CanonicalPath(d)].type = "lnk"
        /\ ~(ResolveFrom(Dirname(CanonicalPath(d)), hist.devfs[CanonicalPath(d)].text) = DevName(d))
        /\ CanonicalPath(d) = <<"dev", "char", d>>
        /\ HasCanonical(d)

(* ------------------------------------------------------------------ *)
(* C14: atomic publication                                              *)
(* ------------------------------------------------------------------ *)

\* Where a worker is in node_symlink() once lstat() has found something
\* other than the wanted link at slink.
ReplacePcs ==
    {"ns_readlink", "ns_unlink_tmp", "ns_mkdir_tmp", "ns_symlink_tmp",
     "ns_rename", "ns_rename_failed"}

\* The staging link of worker d for the path p exists.
Staged(p, d) == staging[p][d] /= <<>>

\* C14: every step a worker takes in node_symlink() to replace what lies at
\* slink leaves all of /dev as it is, but for the one rename() that puts the
\* whole new link, built at the staging path of the device, in the place of
\* the old one: a link at slink is never absent and never partial.  A
\* staging link exists only between its symlink() and the return of
\* node_symlink(), whether rename() succeeds or fails.
C14_AtomicPublication ==
    [][\A d \in Devices :
        LET w == wk[d]
            v == wk'[d]
            p == w.ns_slink
        IN  /\ (v /= w /\ w.pc \in ReplacePcs) =>
                 /\ \A q \in Paths \ {p} : devfs'[q] = devfs[q]
                 /\ \/ devfs'[p] = devfs[p]
                    \/ /\ w.pc = "ns_rename"
                       /\ staging[p][d] = w.ns_text
                       /\ devfs'[p] = Symlink(w.ns_text)
                 /\ devfs[p].type = "lnk" => devfs'[p].type = "lnk"
            /\ \A q \in Paths :
                 Staged(q, d)' =>
                    /\ v.pc \in {"ns_rename", "ns_rename_failed"}
                    /\ v.ns_slink = q
      ]_vars

\* A worker has built its staging link next to a link that leads
\* elsewhere, while the other worker is inside a call of its own.
C14_Witness ==
    \E d \in Devices :
        /\ wk[d].pc = "ns_rename"
        /\ Staged(wk[d].ns_slink, d)
        /\ devfs[wk[d].ns_slink].type = "lnk"
        /\ devfs[wk[d].ns_slink].text /= staging[wk[d].ns_slink][d]
        /\ \E e \in Devices \ {d} : wk[e].pc /= "idle"

(* ------------------------------------------------------------------ *)
(* C15: a failure on one link and the other links                       *)
(* ------------------------------------------------------------------ *)

\* The links link_update() was called for in the last call of d, in order.
Processed(d) == [k \in 1..Len(wk[d].rets) |-> wk[d].rets[k].slink]

\* The results of the last call of d that report a failure: of
\* link_update() itself, or of node_symlink() within it.
Failures(d) ==
    {k \in 1..Len(wk[d].rets) : wk[d].rets[k].r < 0 \/ wk[d].rets[k].ns_err < 0}

\* The link l is as the calls made so far leave it when nothing fails: the
\* claim files are those of the devices added and not removed, the link
\* leads to the one with the strictly highest priority, and nothing is left
\* when there is none.
AsWithoutFailure(l) ==
    /\ Claimants(l) = Live(l)
    /\ \A d \in Live(l) : StrictlyHighest(d, Live(l)) => PointsTo(l, d)
    /\ Live(l) = {} =>
          /\ devfs[LinkPath(l)].type = "none"
          /\ ~index[IndexDirOf(l)].exists

\* C15: udev_node_add() and udev_node_remove() call link_update() once for
\* every link the device declares, in order, also after link_update() has
\* failed for an earlier one, and end; the links other than the failing
\* ones are then as they are when nothing fails.
C15_FailureIsolation ==
    AllReturned =>
        /\ \A d \in Devices :
              wk[d].op \in {"add", "remove"} => Processed(d) = devlinks[d]
        /\ \A l \in Links :
              (l /= "L1" \/ hist.initial = NoFile) => AsWithoutFailure(l)

\* udev_node_add() of A has returned: link_update() failed with -EINVAL for
\* the first link, node_symlink() failed on the device node at the second,
\* and the third link leads to A.
C15_Witness ==
    /\ AllReturned
    /\ wk["A"].op = "add"
    /\ Len(wk["A"].rets) = 3
    /\ wk["A"].rets[1].r = -EINVAL
    /\ Failures("A") = {1, 2}
    /\ PointsTo("L2", "A")
    /\ Claimants("L2") = {"A"}

(* ------------------------------------------------------------------ *)
(* C16: the output of escape_path()                                     *)
(* ------------------------------------------------------------------ *)

RECURSIVE Escaped(_)
\* src with each '/' replaced by \x2f and each '\' by \x5c.
Escaped(src) ==
    IF src = <<>> THEN <<>>
    ELSE (CASE Head(src) = "/" -> <<"\\", "x", "2", "f">>
            [] Head(src) = "\\" -> <<"\\", "x", "5", "c">>
            [] OTHER -> <<Head(src)>>) \o Escaped(Tail(src))

\* The escaped form of src and its terminating NUL fit in size bytes.
Fits(src, size) == Len(Escaped(src)) + 1 <= size

\* C16: for an input whose escaped form fits in the buffer, the output of
\* escape_path() is the input with each '/' replaced by \x2f and each '\'
\* by \x5c and every other byte copied in order; it holds no '/', and no
\* '\' but the one that starts \x2f or \x5c; the value returned is its
\* length.
C16_EscapeOutput ==
    (esc.done /\ Fits(esc.src, esc.size)) =>
        /\ esc.dest = Escaped(esc.src)
        /\ esc.r = Len(esc.dest)
        /\ \A k \in 1..Len(esc.dest) :
              /\ esc.dest[k] /= "/"
              /\ esc.dest[k] = "\\" =>
                    /\ k + 3 <= Len(esc.dest)
                    /\ SubSeq(esc.dest, k, k + 3) \in
                          {<<"\\", "x", "2", "f">>, <<"\\", "x", "5", "c">>}

\* escape_path() has returned for a src that holds a '/', a '\' and other
\* bytes and whose escaped form fills the buffer to the last byte.
C16_Witness ==
    /\ esc.done
    /\ Len(Escaped(esc.src)) + 1 = esc.size
    /\ {"/", "\\", "x"} \subseteq Range(esc.src)
    /\ esc.dest /= <<>>

(* ------------------------------------------------------------------ *)
(* C17: after node_symlink() has replaced a link                        *)
(* ------------------------------------------------------------------ *)

\* The step in which the rename() of node_symlink(), called by
\* link_update() of worker d, succeeds: node_symlink() returns 1.
Replaces(d) ==
    /\ wk[d].pc = "ns_rename" /\ wk[d].ns_from = "link_update"
    /\ wk'[d] /= wk[d] /\ wk'[d].pc /= "ns_rename_failed"

\* link_update() of worker d goes into one more iteration for the same link.
IteratesAgain(d) ==
    /\ wk'[d].pc = "lu_stat1" /\ wk'[d].i = wk[d].i + 1
    /\ wk'[d].slink = wk[d].slink /\ Len(wk'[d].rets) = Len(wk[d].rets)

\* link_update() of worker d returns in this step; what it returns.
ReturnsNow(d) == Len(wk'[d].rets) = Len(wk[d].rets) + 1
Result(d) == wk'[d].rets[Len(wk'[d].rets)]

\* C17: whenever node_symlink() returns 1 inside link_update(),
\* link_update() runs one more iteration before it returns success: it does
\* not return 0 on the iteration in which it replaced the link.
C17_ReplacedForcesRecheck ==
    [][\A d \in Devices :
        Replaces(d) => \/ IteratesAgain(d)
                       \/ ReturnsNow(d) /\ Result(d).r < 0
      ]_vars

\* C17, amended: for a device that is initialized.  For a device that is
\* not, retries is 1: link_update() returns 0 at the end of the one
\* iteration, also when node_symlink() has just replaced the link.
C17_ReplacedForcesRecheckIfInitialized ==
    [][\A d \in Devices :
        Replaces(d) =>
            IF IsInitialized(d)
            THEN \/ IteratesAgain(d)
                 \/ ReturnsNow(d) /\ Result(d).r < 0
            ELSE ReturnsNow(d) /\ Result(d).r = 0 /\ Result(d).i = 1
      ]_vars

\* The call of udev_node_add() for an initialized device found the link of
\* another device at L1, replaced it and left the loop in a later iteration
\* (i counts the iterations before the one that breaks).
C17_Witness ==
    \E d \in Devices :
        /\ IsInitialized(d)
        /\ AllReturned /\ hist.cur.dev = d /\ hist.cur.op = "add"
        /\ hist.devfs[LinkPath("L1")].type = "lnk"
        /\ hist.devfs[LinkPath("L1")] /= devfs[LinkPath("L1")]
        /\ PointsTo("L1", d)
        /\ wk[d].rets[1].slink = "L1" /\ wk[d].rets[1].r = 0 /\ wk[d].rets[1].i >= 1

(* ------------------------------------------------------------------ *)
(* C18: the exit through the comparison of st1 and st2                  *)
(* ------------------------------------------------------------------ *)

\* The step in which link_update() of worker d breaks at line 312: it
\* returns from the second stat() without i++.
ExitsThroughCheck(d) ==
    wk[d].pc = "lu_stat2" /\ ReturnsNow(d) /\ Result(d).i = wk[d].i

\* Worker d is in an iteration of the loop, past its first stat().
InIteration(d) ==
    wk[d].pc \in {"lu_find", "lu_unlink_slink", "lu_rmdir_parents", "lu_undo",
                  "lu_stat2", "ns_lstat", "ns_readlink", "ns_mkdir", "ns_symlink",
                  "ns_unlink_tmp", "ns_mkdir_tmp", "ns_symlink_tmp", "ns_rename",
                  "ns_rename_failed"}
    /\ wk[d].ns_from /= "add"

\* The loop is left through the comparison only when node_symlink() has
\* returned 0 (the link kept or created), the first stat() found the
\* directory, and the directory holds at the second stat() the claim files
\* it held at the first.
QuiescentExit(d) ==
    /\ (wk'[d].pc = "lu_stat2" /\ wk[d].pc /= "lu_stat2") =>
           /\ wk[d].pc \in {"ns_readlink", "ns_symlink"}
           /\ wk[d].st1.st_mode /= 0
    /\ ExitsThroughCheck(d) =>
           /\ wk[d].st1.st_mode /= 0
           /\ wk[d].seen.exists
           /\ index[wk[d].dirname].exists
           /\ index[wk[d].dirname].entries = wk[d].seen.entries

\* C18: link_update() leaves its loop through the comparison of st1 and
\* st2 only in an iteration in which node_symlink() returned 0, the first
\* stat() found the index directory, and no claim file came or went between
\* the two stat() calls; an iteration whose first stat() found no directory
\* ends in another iteration whenever budget remains.
C18_QuiescenceExit ==
    [][\A d \in Devices :
        /\ QuiescentExit(d)
        /\ (InIteration(d) /\ wk[d].st1.st_mode = 0 /\ ReturnsNow(d)) =>
               wk[d].i + 1 >= wk[d].retries
      ]_vars

\* C18, amended: an iteration whose first stat() found no directory ends in
\* another iteration whenever budget remains, unless it leaves the loop at
\* one of the two other breaks: link_find_prioritized() returned -ENOENT
\* (line 291) or node_symlink() failed (line 298).
C18_QuiescenceExitOrBreak ==
    [][\A d \in Devices :
        /\ QuiescentExit(d)
        /\ (/\ InIteration(d) /\ wk[d].st1.st_mode = 0 /\ ReturnsNow(d)
            /\ wk[d].pc \notin {"lu_unlink_slink", "lu_rmdir_parents", "lu_undo"}) =>
               /\ wk[d].i + 1 >= wk[d].retries
               /\ Result(d).i = wk[d].i + 1
      ]_vars

\* A worker stands before its second stat() while the directory no longer
\* holds the claim files of the first: the comparison will fail.
C18_Witness ==
    \E d \in Devices :
        /\ wk[d].pc = "lu_stat2"
        /\ wk[d].seen.exists
        /\ index[wk[d].dirname].entries /= wk[d].seen.entries
        /\ wk[d].i >= 1

(* ------------------------------------------------------------------ *)
(* C19: a device that is not initialized                                *)
(* ------------------------------------------------------------------ *)

\* C19: link_update() for a device that is not initialized runs its loop
\* body at most once per call, hence one link_find_prioritized() and one
\* node_symlink() at most: it is in the iteration i = 0 wherever it stands in
\* the loop, and it returns with i at most 1, whatever node_symlink()
\* returns and whatever is done to the index meanwhile.
C19_OneShot ==
    \A d \in Devices :
        ~IsInitialized(d) =>
            /\ (InIteration(d) \/ wk[d].pc = "lu_stat1") =>
                   wk[d].i = 0 /\ wk[d].retries = 1
            /\ \A k \in 1..Len(wk[d].rets) : wk[d].rets[k].i <= 1

\* link_update() of the uninitialized device has replaced the link of
\* another device, among claim files that came from elsewhere, and has
\* returned 0 after the one iteration.
C19_Witness ==
    \E d \in Devices :
        /\ ~IsInitialized(d)
        /\ wk[d].pc = "idle" /\ wk[d].op = "add"
        /\ Len(wk[d].rets) = 1
        /\ wk[d].rets[1].i = 1 /\ wk[d].rets[1].r = 0
        /\ PointsTo("L1", d)
        /\ Stranger \in Claimants("L1")

(* ------------------------------------------------------------------ *)
(* C20: link_update() in add mode and the link                          *)
(* ------------------------------------------------------------------ *)

\* C20: link_find_prioritized() called in add mode gives a target, never
\* -ENOENT; the branch that unlinks the link and prunes its parent
\* directories is entered by udev_node_remove() and
\* udev_node_update_old_links() only; and no step of udev_node_add()
\* removes a link or a directory under /dev.
C20_AddNeverUnlinks ==
    [][\A d \in Devices :
        LET w == wk[d]
            v == wk'[d]
        IN  /\ (v /= w /\ w.pc = "lu_find" /\ w.add) =>
                   v.pc = "ns_lstat" /\ v.ns_text /= <<>>
            /\ v.pc \in {"lu_unlink_slink", "lu_rmdir_parents"} =>
                   ~v.add /\ v.op \in {"remove", "update"}
            /\ (v /= w /\ w.add) =>
                   /\ \A p \in Paths :
                         devfs[p].type = "lnk" => devfs'[p].type = "lnk"
                   /\ dirs \subseteq dirs'
      ]_vars

\* link_update() in add mode has asked for the winner while the index
\* directory held no claim file but its own, and goes on to node_symlink();
\* another worker is inside a call.
C20_Witness ==
    \E d \in Devices :
        /\ wk[d].add /\ wk[d].pc = "ns_lstat" /\ wk[d].ns_from = "link_update"
        /\ Range(index[wk[d].dirname].entries) \subseteq {d}
        /\ \E e \in Devices \ {d} : wk[e].pc /= "idle" /\ ~wk[e].add

(* ------------------------------------------------------------------ *)
(* C21: link_find_prioritized() and the order of the directory          *)
(* ------------------------------------------------------------------ *)

\* The orders in which readdir() may list the entries of the directory.
Orders(entries) ==
    {q \in DistinctSeqs(Range(entries), Len(entries)) : Len(q) = Len(entries)}

\* The call gives the same result in whatever order the entries are read.
SameInEveryOrder ==
    \A q \in Orders(find.entries) :
        link_find_prioritized(find.dev, find.add, find.exists, q, find.db)
            = [r |-> find.r, target |-> find.target]

\* The claimants the loop compares: the entries other than the caller's own
\* that resolve to a device.
Rivals == {id \in Range(find.entries) \ {find.dev} : find.db[id].ok}

\* The order cannot matter: the caller, in add mode, has a priority that no
\* rival exceeds, or one rival has a priority above that of every other
\* (and above the caller's in add mode), or there is no rival.
OrderFree ==
    \/ Rivals = {}
    \/ /\ find.add
       /\ \A id \in Rivals : find.db[id].prio <= DevlinkPriority(find.dev)
    \/ \E id \in Rivals :
          /\ \A o \in Rivals \ {id} : find.db[o].prio < find.db[id].prio
          /\ find.add => find.db[id].prio > DevlinkPriority(find.dev)

\* C21: for fixed claim files and device records, the result of
\* link_find_prioritized() is the same for every order in which the
\* directory lists its entries, in add mode and in remove mode, also when
\* several claimants share the highest priority.
C21_SelectorDeterminism == find.done => SameInEveryOrder

\* C21, amended: the result is the same for every order exactly when the
\* caller, in add mode, is among the claimants of the highest priority, or
\* one other claimant has a priority strictly above all the rest, or no
\* other claimant resolves.  Among several other claimants that share the
\* highest priority the one listed first is chosen.
C21_DeterminismUnlessTie == find.done => (SameInEveryOrder <=> OrderFree)

\* link_find_prioritized() has returned in remove mode for a directory of
\* three claimants, two of them tied below the one that is chosen.
C21_Witness ==
    /\ find.done /\ ~find.add
    /\ Cardinality(Rivals) = 3
    /\ OrderFree
    /\ \E a, b \in Rivals : a /= b /\ find.db[a].prio = find.db[b].prio
    /\ find.r = 0

(* ------------------------------------------------------------------ *)
(* C22: the index directories of different links                        *)
(* ------------------------------------------------------------------ *)

\* What path_startswith(slink, "/dev") leaves of a link below /dev: a
\* non-empty name that does not begin with '/'.
LinkNames == {src \in EscSources : src /= <<>> /\ Head(src) /= "/"}

\* The names that escape_path() turns into the name it made of esc.src,
\* in a buffer of the same size.
SameName ==
    {src \in LinkNames : escape_path(src, esc.size) = esc.dest}

\* On the inputs whose escaped form fits in the buffer escape_path() is
\* injective and gives a non-empty name for a non-empty input.
InjectiveWhereFits ==
    (esc.done /\ esc.src \in LinkNames /\ Fits(esc.src, esc.size)) =>
        /\ esc.dest /= <<>>
        /\ \A src \in SameName : Fits(src, esc.size) => src = esc.src

\* C22: two different link paths under /dev never get the same directory
\* name under /run/udev/links: the name escape_path() makes of a link in
\* the name_enc buffer of link_update() is made of no other link, and it is
\* empty only if the escaped form does not fit in the buffer.
C22_DistinctIndexDirs ==
    (esc.done /\ esc.src \in LinkNames /\ esc.size = NameEncSize) =>
        /\ SameName = {esc.src}
        /\ esc.dest = <<>> => ~Fits(esc.src, esc.size)
====
